---- MODULE Spec2Model ----
(***************************************************************************)
(* The threaded DAP client of scripts/test_dap_standalone.py (DAPTester    *)
(* and main), the adapter it talks to over the child's stdin/stdout, and   *)
(* the Content-Length framing the scripts share.                           *)
(*                                                                         *)
(* Two threads run DAPTester's code: "main" (main(), lines 227-374) and    *)
(* "reader" (_read_messages, lines 74-104).  The adapter is the            *)
(* environment.  Spec lets it emit any frame at any time; SpecDouble       *)
(* scripts it as the adapter double of the handshake scenario.             *)
(* SpecFraming runs the framing code alone: messages written to a pipe as  *)
(* bytes and read back; SpecStream reads a stream that is cut or           *)
(* malformed, SpecPieces one whose bytes come in pieces.  SpecDeadline and *)
(* SpecCleanup add the scheduling under which waits and cleanup end.       *)
(* SpecSequential and SpecSequentialDouble run the single-threaded         *)
(* scripts test_launch_sequence.py and test_correct_sequence.py.           *)
(***************************************************************************)
EXTENDS Integers, Sequences, FiniteSets, TLC

VARIABLES
    seq,                 \* DAPTester.seq
    received_events,     \* DAPTester.received_events: event names, in order
    received_responses,  \* DAPTester.received_responses: request_seq -> response
    running,             \* DAPTester.running
    stdin,               \* every request frame written to process.stdin, in order
    stdout,              \* frames the adapter wrote that the reader has not read
    alive,               \* the adapter process runs (its pipes are open)
    emitted,             \* number of frames the adapter has emitted
    owed,                \* adapter double: frames it still has to emit
    adapterRead,         \* adapter double: number of stdin frames it has read
    mainPc,              \* main(): where the main thread is
    mainErr,             \* main(): how it failed, "none" while it has not
    init_seq,            \* main(): init_seq
    launch_seq,          \* main(): launch_seq
    disc_seq,            \* main(): disc_seq
    got,                 \* main(): the responses wait_for_response returned
    readerPc,            \* _read_messages: where the reader thread is
    snd,                 \* per thread: the send_* call in progress
    held,                \* adapter double: responses withheld for now
    timing_log,          \* DAPTester.timing_log: the (type, command) pairs logged
    diagnosis,           \* main(): the exception it caught and printed, if any
    script,              \* framing: the script whose framing code runs
    pipe,                \* framing: bytes written to the pipe and not yet read
    sent,                \* framing: the messages written, in order
    received,            \* framing: what each read of a message came to
    fault,               \* framing: how the stream read was damaged
    pending,             \* framing: bytes written that have not reached the pipe
    program,             \* sequential scripts: the script that runs
    stage,               \* sequential scripts: the step it is at
    phase,               \* sequential scripts: sending, reading or cleaning up
    tries,               \* sequential scripts: the loop variable of the step
    returned,            \* sequential scripts: what read_message returned last
    proc_stdin,          \* sequential scripts: requests written to proc.stdin
    proc_stdout,         \* sequential scripts: frames in the pipe from the adapter
    buffered,            \* sequential scripts: frames in proc.stdout's buffer
    proc_alive,          \* sequential scripts: the adapter process runs
    served,              \* scripted adapter: number of requests it has read
    backlog,             \* scripted adapter: frames it still has to emit
    withheld,            \* scripted adapter: the launch response it holds back
    emits,               \* unscripted adapter: number of frames it has emitted
    history              \* sequential scripts: requests sent and reads, in order

protocol == << seq, received_events, received_responses, running, stdin,
               stdout, alive, emitted, owed, adapterRead, mainPc, mainErr,
               init_seq, launch_seq, disc_seq, got, readerPc, snd, held,
               timing_log, diagnosis >>

wire == << script, pipe, sent, received, fault, pending >>

sequential == << program, stage, phase, tries, returned, proc_stdin, proc_stdout,
                 buffered, proc_alive, served, backlog, withheld, emits,
                 history >>

vars == << protocol, wire, sequential >>

\* Bounds of the model.
MaxEmit == 3         \* frames the unscripted adapter emits in one run
MaxStraySeq == 3     \* largest request_seq of a response nobody asked for

Threads == {"main", "reader"}
NoFrame == [type |-> "none", seq |-> 0, command |-> "", success |-> FALSE,
            issued |-> FALSE, late |-> FALSE]

Response(s, c, ok) == [type |-> "response", seq |-> s, command |-> c,
                       success |-> ok, issued |-> FALSE, late |-> FALSE]
Event(e) == [type |-> "event", seq |-> 0, command |-> e, success |-> FALSE,
             issued |-> FALSE, late |-> FALSE]
Garbage == [type |-> "garbage", seq |-> 0, command |-> "", success |-> FALSE,
            issued |-> FALSE, late |-> FALSE]

Idle == [pc |-> "idle", cmd |-> "", tmp |-> 0, req |-> 0]

\* the stream holds whole frames only
NoFault == [kind |-> "none", at |-> 0]

\* main has caught no exception
NoDiagnosis == [exception |-> "none", seq |-> 0, timeout |-> 0]

IssuedSeqs == {stdin[i].seq : i \in 1..Len(stdin)}
Written(c) == \E i \in 1..Len(stdin) : stdin[i].command = c
CountWritten(c) == Cardinality({i \in 1..Len(stdin) : stdin[i].command = c})
\* the seq of the wait main is in, or was in when it ended (249, 271, 285)
CurrentWaitSeq ==
    IF disc_seq # 0 THEN disc_seq
    ELSE IF launch_seq # 0 THEN launch_seq
    ELSE init_seq

CountEvents(e) ==
    Cardinality({i \in 1..Len(received_events) : received_events[i] = e})

\* the state of the sequential scripts in the specifications that do not
\* run them
SequentialIdle ==
    /\ program = "test_launch_sequence"
    /\ stage = 1
    /\ phase = "idle"
    /\ tries = 0
    /\ returned = NoFrame
    /\ proc_stdin = << >>
    /\ proc_stdout = << >>
    /\ buffered = << >>
    /\ proc_alive = FALSE
    /\ served = 0
    /\ backlog = << >>
    /\ withheld = << >>
    /\ emits = 0
    /\ history = << >>

----------------------------------------------------------------------------
(* DAPTester.__init__ and the state before main() runs.                    *)
InitProtocol ==
    /\ seq = 0
    /\ received_events = << >>
    /\ received_responses = << >>
    /\ running = FALSE
    /\ stdin = << >>
    /\ stdout = << >>
    /\ alive = FALSE
    /\ emitted = 0
    /\ owed = << >>
    /\ adapterRead = 0
    /\ mainPc = "spawn"
    /\ mainErr = "none"
    /\ init_seq = 0
    /\ launch_seq = 0
    /\ disc_seq = 0
    /\ got = [c \in {"initialize", "launch", "disconnect"} |-> NoFrame]
    /\ readerPc = "unstarted"
    /\ snd = [t \in Threads |-> Idle]
    /\ held = << >>
    /\ timing_log = {}
    /\ diagnosis = NoDiagnosis

Init ==
    /\ InitProtocol
    /\ script = "test_dap_standalone"
    /\ pipe = << >>
    /\ sent = << >>
    /\ received = << >>
    /\ fault = NoFault
    /\ pending = << >>
    /\ SequentialIdle

----------------------------------------------------------------------------
(* send_initialize / send_launch / send_configuration_done /               *)
(* send_disconnect (lines 143-209) and _send_message (lines 132-141).      *)
(* Each call is: self.seq += 1 (a load and a store), the request literal   *)
(* reading self.seq again, _send_message logging the request and writing   *)
(* header + body with one write call, and return self.seq reading it a     *)
(* third time.  Nothing serialises the two threads, so every step is its   *)
(* own action.                                                             *)

\* log_timing (lines 39-49), without the timestamp and the order
LogEntry(event_type, command) == << event_type, command >>

\* line 48: self.timing_log.append(entry)
Logging(event_type, command) == timing_log \cup {LogEntry(event_type, command)}

\* find_timing (lines 321-325): is there such an entry?
Logged(event_type, command) == LogEntry(event_type, command) \in timing_log

\* self.seq += 1, the value stored (lines 145, 168, 188, 199)
NextSeq(loaded) == loaded + 1

\* the frame _send_message puts on the pipe (lines 134-140)
RequestFrame(t) == [seq |-> snd[t].req, command |-> snd[t].cmd, by |-> t]

\* a thread is inside _send_message, its write call not yet returned
InSendMessage(t) == snd[t].pc = "write"

Call(t, c) == snd' = [snd EXCEPT ![t] = [pc |-> "load", cmd |-> c, tmp |-> 0, req |-> 0]]

SendLoad(t) ==
    /\ snd[t].pc = "load"
    /\ snd' = [snd EXCEPT ![t].pc = "store", ![t].tmp = seq]
    /\ UNCHANGED << seq, received_events, received_responses, running, stdin,
                    stdout, alive, emitted, owed, adapterRead, mainPc,
                    mainErr, init_seq, launch_seq, disc_seq, got, readerPc,
                    held, timing_log, wire, sequential, diagnosis >>

SendStore(t) ==
    /\ snd[t].pc = "store"
    /\ seq' = NextSeq(snd[t].tmp)
    /\ snd' = [snd EXCEPT ![t].pc = "build"]
    /\ UNCHANGED << received_events, received_responses, running, stdin,
                    stdout, alive, emitted, owed, adapterRead, mainPc,
                    mainErr, init_seq, launch_seq, disc_seq, got, readerPc,
                    held, timing_log, wire, sequential, diagnosis >>

SendBuild(t) ==
    /\ snd[t].pc = "build"
    /\ snd' = [snd EXCEPT ![t].pc = "write", ![t].req = seq]
    /\ timing_log' = Logging("SEND_REQ", snd[t].cmd)
    /\ UNCHANGED << seq, received_events, received_responses, running, stdin,
                    stdout, alive, emitted, owed, adapterRead, mainPc,
                    mainErr, init_seq, launch_seq, disc_seq, got, readerPc,
                    held, wire, sequential, diagnosis >>

\* process.stdin.write(header + body); flush() on a live adapter (140-141)
MainWrite ==
    /\ snd["main"].pc = "write"
    /\ alive
    /\ stdin' = Append(stdin, RequestFrame("main"))
    /\ snd' = [snd EXCEPT !["main"].pc = "ret"]
    /\ UNCHANGED << seq, received_events, received_responses, running, stdout,
                    alive, emitted, owed, adapterRead, mainPc, mainErr,
                    init_seq, launch_seq, disc_seq, got, readerPc, held,
                    timing_log, wire, sequential, diagnosis >>

\* the same write after the adapter exited: BrokenPipeError, caught at 367
MainWriteBroken ==
    /\ snd["main"].pc = "write"
    /\ ~alive
    /\ snd' = [snd EXCEPT !["main"] = Idle]
    /\ mainErr' = "Error"
    /\ diagnosis' = [exception |-> "BrokenPipeError", seq |-> 0, timeout |-> 0]
    /\ mainPc' = "sd_flag"
    /\ UNCHANGED << seq, received_events, received_responses, running, stdin,
                    stdout, alive, emitted, owed, adapterRead, init_seq,
                    launch_seq, disc_seq, got, readerPc, held, timing_log,
                    wire, sequential >>

\* return self.seq (lines 164, 184, 209), assigned by main at 246, 262, 284
MainReturn ==
    /\ snd["main"].pc = "ret"
    /\ snd' = [snd EXCEPT !["main"] = Idle]
    /\ \/ /\ mainPc = "init_send"
          /\ init_seq' = seq
          /\ mainPc' = "init_wait"
          /\ UNCHANGED << launch_seq, disc_seq >>
       \/ /\ mainPc = "launch_send"
          /\ launch_seq' = seq
          /\ mainPc' = "launch_wait"
          /\ UNCHANGED << init_seq, disc_seq >>
       \/ /\ mainPc = "disc_send"
          /\ disc_seq' = seq
          /\ mainPc' = "disc_wait"
          /\ UNCHANGED << init_seq, launch_seq >>
    /\ UNCHANGED << seq, received_events, received_responses, running, stdin,
                    stdout, alive, emitted, owed, adapterRead, mainErr, got,
                    readerPc, held, timing_log, wire, sequential, diagnosis >>

\* the reader's send_configuration_done writes and returns to the loop (99)
ReaderWrite ==
    /\ snd["reader"].pc = "write"
    /\ alive
    /\ stdin' = Append(stdin, RequestFrame("reader"))
    /\ snd' = [snd EXCEPT !["reader"] = Idle]
    /\ readerPc' = "top"
    /\ UNCHANGED << seq, received_events, received_responses, running, stdout,
                    alive, emitted, owed, adapterRead, mainPc, mainErr,
                    init_seq, launch_seq, disc_seq, got, held, timing_log,
                    wire, sequential, diagnosis >>

\* the same write after the adapter exited: the except at 101-104 breaks
ReaderWriteBroken ==
    /\ snd["reader"].pc = "write"
    /\ ~alive
    /\ snd' = [snd EXCEPT !["reader"] = Idle]
    /\ readerPc' = "stopped"
    /\ UNCHANGED << seq, received_events, received_responses, running, stdin,
                    stdout, alive, emitted, owed, adapterRead, mainPc,
                    mainErr, init_seq, launch_seq, disc_seq, got, held,
                    timing_log, wire, sequential, diagnosis >>

----------------------------------------------------------------------------
(* main(), lines 238-374.                                                  *)

\* tester.start_adapter() (lines 51-72): Popen, running = True, reader start
StartAdapter ==
    /\ mainPc = "spawn"
    /\ alive' = TRUE
    /\ running' = TRUE
    /\ readerPc' = "top"
    /\ mainPc' = "init_send"
    /\ Call("main", "initialize")
    /\ UNCHANGED << seq, received_events, received_responses, stdin, stdout,
                    emitted, owed, adapterRead, mainErr, init_seq, launch_seq,
                    disc_seq, got, held, timing_log, wire, sequential, diagnosis >>

\* the seq main is waiting for in wait_for_response
WaitSeq(step) ==
    CASE step = "initialize" -> init_seq
      [] step = "launch" -> launch_seq
      [] step = "disconnect" -> disc_seq

WaitPc(step) ==
    CASE step = "initialize" -> "init_wait"
      [] step = "launch" -> "launch_wait"
      [] step = "disconnect" -> "disc_wait"

SleepPc(step) ==
    CASE step = "initialize" -> "init_sleep"
      [] step = "launch" -> "launch_sleep"
      [] step = "disconnect" -> "disc_sleep"

Steps == {"initialize", "launch", "disconnect"}

\* wait_for_response, line 215: is the response there?
Arrived(s) == s \in DOMAIN received_responses

\* wait_for_response, line 216: the response returned
Returned(s) == received_responses[s]

InitSucceededAlways(response) == TRUE

\* line 251: init_response.get('success')
InitSucceeded(response) == response.success

\* lines 249-257: the initialize response is there; inspect success
InitResponse ==
    /\ mainPc = "init_wait"
    /\ Arrived(init_seq)
    /\ got' = [got EXCEPT !["initialize"] = Returned(init_seq)]
    /\ IF InitSucceeded(Returned(init_seq))
       THEN /\ mainPc' = "launch_send"
            /\ Call("main", "launch")
            /\ UNCHANGED mainErr
       ELSE /\ mainPc' = "sd_flag"
            /\ mainErr' = "InitFailed"
            /\ UNCHANGED snd
    /\ UNCHANGED << seq, received_events, received_responses, running, stdin,
                    stdout, alive, emitted, owed, adapterRead, init_seq,
                    launch_seq, disc_seq, readerPc, held, timing_log, wire, sequential,
                    diagnosis >>

\* lines 271-277: the launch response is there; inspect success
LaunchResponse ==
    /\ mainPc = "launch_wait"
    /\ Arrived(launch_seq)
    /\ got' = [got EXCEPT !["launch"] = Returned(launch_seq)]
    /\ IF Returned(launch_seq).success
       THEN /\ mainPc' = "ready"
            /\ UNCHANGED mainErr
       ELSE /\ mainPc' = "sd_flag"
            /\ mainErr' = "LaunchFailed"
    /\ UNCHANGED << seq, received_events, received_responses, running, stdin,
                    stdout, alive, emitted, owed, adapterRead, init_seq,
                    launch_seq, disc_seq, readerPc, snd, held, timing_log,
                    wire, sequential, diagnosis >>

\* lines 279-284: time.sleep(1.0), then send_disconnect is called
Disconnect ==
    /\ mainPc = "ready"
    /\ mainPc' = "disc_send"
    /\ Call("main", "disconnect")
    /\ UNCHANGED << seq, received_events, received_responses, running, stdin,
                    stdout, alive, emitted, owed, adapterRead, mainErr,
                    init_seq, launch_seq, disc_seq, got, readerPc, held,
                    timing_log, wire, sequential, diagnosis >>

\* lines 285-360: the disconnect response is there; summary; return 0
DisconnectResponse ==
    /\ mainPc = "disc_wait"
    /\ Arrived(disc_seq)
    /\ got' = [got EXCEPT !["disconnect"] = Returned(disc_seq)]
    /\ mainPc' = "sd_flag"
    /\ UNCHANGED << seq, received_events, received_responses, running, stdin,
                    stdout, alive, emitted, owed, adapterRead, mainErr,
                    init_seq, launch_seq, disc_seq, readerPc, snd, held,
                    timing_log, wire, sequential, diagnosis >>

\* wait_for_response, line 217: the response is not there; time.sleep(0.1)
Sleep(step) ==
    /\ mainPc = WaitPc(step)
    /\ ~Arrived(WaitSeq(step))
    /\ mainPc' = SleepPc(step)
    /\ UNCHANGED << seq, received_events, received_responses, running, stdin,
                    stdout, alive, emitted, owed, adapterRead, mainErr,
                    init_seq, launch_seq, disc_seq, got, readerPc, snd, held,
                    timing_log, wire, sequential, diagnosis >>

\* wait_for_response, line 214: the deadline has not passed; poll again
Wake(step) ==
    /\ mainPc = SleepPc(step)
    /\ mainPc' = WaitPc(step)
    /\ UNCHANGED << seq, received_events, received_responses, running, stdin,
                    stdout, alive, emitted, owed, adapterRead, mainErr,
                    init_seq, launch_seq, disc_seq, got, readerPc, snd, held,
                    timing_log, wire, sequential, diagnosis >>

AfterTimeoutRetry(step) == WaitPc(step)

\* lines 362-374: TimeoutError is caught in main, which prints it and goes
\* to the finally clause; the wait is not taken up again
AfterTimeout(step) == "sd_flag"

\* line 218: TimeoutError(f"No response for seq {seq} after {timeout}s"),
\* the fields the message names
TimeoutError(s, t) == [exception |-> "TimeoutError", seq |-> s, timeout |-> t]

\* the timeout main passes to wait_for_response (lines 249, 271, 285), in
\* tenths of a second
StepTimeout(step) == IF step = "launch" THEN 100 ELSE 50

NoDeadline(step) == FALSE /\ UNCHANGED vars

\* wait_for_response, lines 214 and 218: the deadline passed during the
\* sleep; TimeoutError is raised
Timeout(step) ==
    /\ mainPc = SleepPc(step)
    /\ mainErr' = "Timeout"
    /\ diagnosis' = TimeoutError(WaitSeq(step), StepTimeout(step))
    /\ mainPc' = AfterTimeout(step)
    /\ UNCHANGED << seq, received_events, received_responses, running, stdin,
                    stdout, alive, emitted, owed, adapterRead, init_seq,
                    launch_seq, disc_seq, got, readerPc, snd, held,
                    timing_log, wire, sequential >>

ShutdownFlagKept ==
    /\ mainPc = "sd_flag"
    /\ mainPc' = "sd_term"
    /\ UNCHANGED << seq, received_events, received_responses, running, stdin,
                    stdout, alive, emitted, owed, adapterRead, mainErr,
                    init_seq, launch_seq, disc_seq, got, readerPc, snd, held,
                    timing_log, wire, sequential, diagnosis >>

\* shutdown(), line 222: self.running = False
ShutdownFlag ==
    /\ mainPc = "sd_flag"
    /\ running' = FALSE
    /\ mainPc' = "sd_term"
    /\ UNCHANGED << seq, received_events, received_responses, stdin, stdout,
                    alive, emitted, owed, adapterRead, mainErr, init_seq,
                    launch_seq, disc_seq, got, readerPc, snd, held,
                    timing_log, wire, sequential, diagnosis >>

\* shutdown(), lines 223-224: process.terminate() sends SIGTERM, or does
\* nothing when the process has already exited
ShutdownTerminate ==
    /\ mainPc = "sd_term"
    /\ mainPc' = "sd_wait"
    /\ UNCHANGED << seq, received_events, received_responses, running, stdin,
                    stdout, alive, emitted, owed, adapterRead, mainErr,
                    init_seq, launch_seq, disc_seq, got, readerPc, snd, held,
                    timing_log, wire, sequential, diagnosis >>

\* shutdown(), line 225: process.wait() returns once the process has exited
ShutdownWait ==
    /\ mainPc = "sd_wait"
    /\ ~alive
    /\ mainPc' = "done"
    /\ UNCHANGED << seq, received_events, received_responses, running, stdin,
                    stdout, alive, emitted, owed, adapterRead, mainErr,
                    init_seq, launch_seq, disc_seq, got, readerPc, snd, held,
                    timing_log, wire, sequential, diagnosis >>

\* terminate() has been called
Signalled == mainPc \in {"sd_wait", "done"}

----------------------------------------------------------------------------
(* _read_messages, lines 74-104, with _read_message (106-130) taking one   *)
(* frame off the pipe.                                                     *)

\* line 76: while self.running
ReaderTop ==
    /\ readerPc = "top"
    /\ readerPc' = IF running THEN "reading" ELSE "stopped"
    /\ UNCHANGED << seq, received_events, received_responses, running, stdin,
                    stdout, alive, emitted, owed, adapterRead, mainPc,
                    mainErr, init_seq, launch_seq, disc_seq, got, snd, held,
                    timing_log, wire, sequential, diagnosis >>

StoreKeyOwnSeq(message) == 0

\* line 83: the key a response is stored under
StoreKey(message) == message.seq

\* line 85: self.received_responses[seq] = message.  The fields issued and
\* late are not in the code: they record whether a request with that seq had
\* been written, and whether main's wait had already timed out, when the
\* response was stored.
Stamped(message) ==
    [message EXCEPT !.issued = message.seq \in IssuedSeqs,
                    !.late = (mainErr = "Timeout" /\ message.seq = CurrentWaitSeq)]

StoreResponseDropLate(message) ==
    IF mainErr = "Timeout" /\ message.seq = CurrentWaitSeq
    THEN received_responses
    ELSE (StoreKey(message) :> Stamped(message)) @@ received_responses

StoreResponse(message) ==
    (StoreKey(message) :> Stamped(message)) @@ received_responses

\* lines 82-87: a response frame
ReaderResponse ==
    /\ readerPc = "reading"
    /\ stdout # << >>
    /\ Head(stdout).type = "response"
    /\ received_responses' = StoreResponse(Head(stdout))
    /\ timing_log' = Logging("RECV_RESP", Head(stdout).command)
    /\ stdout' = Tail(stdout)
    /\ readerPc' = "top"
    /\ UNCHANGED << seq, received_events, running, stdin, alive, emitted,
                    owed, adapterRead, mainPc, mainErr, init_seq, launch_seq,
                    disc_seq, got, snd, held, wire, sequential, diagnosis >>

RecordEventOnce(event_name) ==
    IF CountEvents(event_name) > 0
    THEN received_events ELSE Append(received_events, event_name)

\* line 91: self.received_events.append(message)
RecordEvent(event_name) == Append(received_events, event_name)

AutoHandledAny(event_name) == TRUE

AutoHandledMisnamed(event_name) == event_name = "initialize"

\* line 97: the events the reader answers with configurationDone
AutoHandled(event_name) == event_name = "initialized"

ReaderPcAfterDetached(event_name) == "top"

\* lines 97-99: the handler runs inside the loop, before the next read
ReaderPcAfter(event_name) ==
    IF AutoHandled(event_name) THEN "handler" ELSE "top"

\* lines 89-99: an event frame; an initialized event calls
\* send_configuration_done from inside the loop
ReaderEvent ==
    /\ readerPc = "reading"
    /\ stdout # << >>
    /\ Head(stdout).type = "event"
    /\ received_events' = RecordEvent(Head(stdout).command)
    /\ timing_log' = Logging("RECV_EVENT", Head(stdout).command)
    /\ stdout' = Tail(stdout)
    /\ readerPc' = ReaderPcAfter(Head(stdout).command)
    /\ IF AutoHandled(Head(stdout).command)
       THEN Call("reader", "configurationDone")
       ELSE UNCHANGED snd
    /\ UNCHANGED << seq, received_responses, running, stdin, alive, emitted,
                    owed, adapterRead, mainPc, mainErr, init_seq, launch_seq,
                    disc_seq, got, held, wire, sequential, diagnosis >>

\* lines 119-129: a frame whose header or body does not parse raises; the
\* except at 101-104 leaves the loop
ReaderGarbage ==
    /\ readerPc = "reading"
    /\ stdout # << >>
    /\ Head(stdout).type = "garbage"
    /\ stdout' = Tail(stdout)
    /\ readerPc' = "stopped"
    /\ UNCHANGED << seq, received_events, received_responses, running, stdin,
                    alive, emitted, owed, adapterRead, mainPc, mainErr,
                    init_seq, launch_seq, disc_seq, got, snd, held,
                    timing_log, wire, sequential, diagnosis >>

\* lines 111-113 and 79: read(1) returns b'' at end of file, _read_message
\* returns None, and the loop goes round again
ReaderEOF ==
    /\ readerPc = "reading"
    /\ stdout = << >>
    /\ ~alive
    /\ readerPc' = "top"
    /\ UNCHANGED << seq, received_events, received_responses, running, stdin,
                    stdout, alive, emitted, owed, adapterRead, mainPc,
                    mainErr, init_seq, launch_seq, disc_seq, got, snd, held,
                    timing_log, wire, sequential, diagnosis >>

----------------------------------------------------------------------------
(* The adapter (python3 -m debugpy.adapter, line 58) is outside the        *)
(* repository.  Unscripted, it may answer any request it was sent, with    *)
(* either outcome and more than once, answer a request nobody sent, emit   *)
(* events (the initialized event, an output event, a terminated event),    *)
(* emit bytes that are no frame, and exit.  It speaks only once the         *)
(* client's first request has been written to it.                          *)

Emit(frame) ==
    /\ alive
    /\ stdout' = Append(stdout, frame)
    /\ emitted' = emitted + 1

FreeRespond ==
    /\ emitted < MaxEmit
    /\ \E i \in 1..Len(stdin), ok \in BOOLEAN :
          Emit(Response(stdin[i].seq, stdin[i].command, ok))
    /\ UNCHANGED << seq, received_events, received_responses, running, stdin,
                    alive, owed, adapterRead, mainPc, mainErr, init_seq,
                    launch_seq, disc_seq, got, readerPc, snd, held,
                    timing_log, wire, sequential, diagnosis >>

FreeStray ==
    /\ emitted < MaxEmit
    /\ stdin # << >>
    /\ \E s \in (1..MaxStraySeq) \ IssuedSeqs, ok \in BOOLEAN :
          Emit(Response(s, "stray", ok))
    /\ UNCHANGED << seq, received_events, received_responses, running, stdin,
                    alive, owed, adapterRead, mainPc, mainErr, init_seq,
                    launch_seq, disc_seq, got, readerPc, snd, held,
                    timing_log, wire, sequential, diagnosis >>

FreeEvent ==
    /\ emitted < MaxEmit
    /\ stdin # << >>
    /\ \E e \in {"initialized", "output", "terminated"} : Emit(Event(e))
    /\ UNCHANGED << seq, received_events, received_responses, running, stdin,
                    alive, owed, adapterRead, mainPc, mainErr, init_seq,
                    launch_seq, disc_seq, got, readerPc, snd, held,
                    timing_log, wire, sequential, diagnosis >>

FreeGarbage ==
    /\ emitted < MaxEmit
    /\ stdin # << >>
    /\ Emit(Garbage)
    /\ UNCHANGED << seq, received_events, received_responses, running, stdin,
                    alive, owed, adapterRead, mainPc, mainErr, init_seq,
                    launch_seq, disc_seq, got, readerPc, snd, held,
                    timing_log, wire, sequential, diagnosis >>

AdapterExit ==
    /\ alive
    /\ alive' = FALSE
    /\ UNCHANGED << seq, received_events, received_responses, running, stdin,
                    stdout, emitted, owed, adapterRead, mainPc, mainErr,
                    init_seq, launch_seq, disc_seq, got, readerPc, snd, held,
                    timing_log, wire, sequential, diagnosis >>

(* The adapter double of the handshake scenario (spec 8): it answers       *)
(* initialize with success, answers launch by emitting an initialized      *)
(* event and withholding the response until it has read configurationDone, *)
(* and answers configurationDone and disconnect with success.              *)
DoubleRead ==
    /\ alive
    /\ adapterRead < Len(stdin)
    /\ adapterRead' = adapterRead + 1
    /\ LET r == stdin[adapterRead + 1]
           answer == << Response(r.seq, r.command, TRUE) >>
       IN
       CASE r.command = "launch" ->
              /\ owed' = owed \o << Event("initialized") >>
              /\ held' = held \o answer
         [] r.command = "configurationDone" ->
              /\ owed' \in {owed \o answer \o held, owed \o held \o answer}
              /\ held' = << >>
         [] OTHER ->
              /\ owed' = owed \o answer
              /\ held' = held
    /\ UNCHANGED << seq, received_events, received_responses, running, stdin,
                    stdout, alive, emitted, mainPc, mainErr, init_seq,
                    launch_seq, disc_seq, got, readerPc, snd, timing_log,
                    wire, sequential, diagnosis >>

\* the double writes its frames in the order it produced them
DoubleEmit ==
    /\ owed # << >>
    /\ Emit(Head(owed))
    /\ owed' = Tail(owed)
    /\ UNCHANGED << seq, received_events, received_responses, running, stdin,
                    alive, adapterRead, mainPc, mainErr, init_seq, launch_seq,
                    disc_seq, got, readerPc, snd, held, timing_log, wire, sequential,
                    diagnosis >>

\* the double exits when it is sent SIGTERM
DoubleExit ==
    /\ alive
    /\ Signalled
    /\ alive' = FALSE
    /\ owed' = << >>
    /\ UNCHANGED << seq, received_events, received_responses, running, stdin,
                    stdout, emitted, adapterRead, mainPc, mainErr, init_seq,
                    launch_seq, disc_seq, got, readerPc, snd, held,
                    timing_log, wire, sequential, diagnosis >>

----------------------------------------------------------------------------
MainNext ==
    \/ StartAdapter
    \/ SendLoad("main") \/ SendStore("main") \/ SendBuild("main")
    \/ MainWrite \/ MainReturn
    \/ InitResponse \/ LaunchResponse \/ Disconnect \/ DisconnectResponse
    \/ \E step \in Steps : Sleep(step) \/ Wake(step)
    \/ ShutdownFlag \/ ShutdownTerminate \/ ShutdownWait

ReaderNext ==
    \/ ReaderTop \/ ReaderResponse \/ ReaderEvent \/ ReaderEOF
    \/ SendLoad("reader") \/ SendStore("reader") \/ SendBuild("reader")
    \/ ReaderWrite

\* what only an adapter that misbehaves, stalls or exits makes happen
FaultNext ==
    \/ MainWriteBroken \/ ReaderWriteBroken \/ ReaderGarbage
    \/ \E step \in Steps : Timeout(step)

FreeNext == FreeRespond \/ FreeStray \/ FreeEvent \/ FreeGarbage \/ AdapterExit

DoubleNext == DoubleRead \/ DoubleEmit \/ DoubleExit

Next == MainNext \/ ReaderNext \/ FaultNext \/ FreeNext

NextDouble == MainNext \/ ReaderNext \/ DoubleNext

\* the client against an unscripted adapter
Spec == Init /\ [][Next]_vars

\* the client against the adapter double, which answers before any
\* deadline; the threads and the double are scheduled fairly
SpecDouble ==
    /\ Init
    /\ [][NextDouble]_vars
    /\ WF_vars(MainNext)
    /\ WF_vars(ReaderNext)
    /\ WF_vars(DoubleNext)

----------------------------------------------------------------------------
(* C1. Handshake ordering.                                                 *)

LaunchResponseRead ==
    \E s \in DOMAIN received_responses :
        /\ received_responses[s].command = "launch"
        /\ received_responses[s].success

\* main is past line 273 with a response whose success is true
Ready == got["launch"].success

\* C1: against the adapter double every fair run reaches the success state
\* (main passes the success test of line 273, and the launch response with
\* success=true is received), and whenever the launch response has been
\* read, the configurationDone request is already on the wire.
C1_HandshakeOrdering ==
    /\ <>Ready
    /\ <>LaunchResponseRead
    /\ [](LaunchResponseRead => Written("configurationDone"))

C1_Witness ==
    /\ Ready
    /\ got["launch"].command = "launch"
    /\ LaunchResponseRead
    /\ Written("configurationDone")

----------------------------------------------------------------------------
(* C2. Response correlation.                                               *)

ReaderTakes(kind) ==
    /\ readerPc = "reading"
    /\ stdout # << >>
    /\ Head(stdout).type = kind
    /\ stdout' = Tail(stdout)

----------------------------------------------------------------------------
(* C3. Timeout.                                                            *)

SleepPcs == {SleepPc(c) : c \in Steps}
WaitPcs == {WaitPc(c) : c \in Steps}

----------------------------------------------------------------------------
(* C4. Disconnection.                                                      *)

\* C4: when the adapter's output stream has closed and been read to its
\* end while main waits for a response that has not come, the wait does
\* not end in a timeout (it fails with AdapterDisconnected).
C4_DisconnectFailsWaiters ==
    [][ (~alive /\ stdout = << >> /\ mainPc \in WaitPcs \cup SleepPcs
            /\ ~Arrived(CurrentWaitSeq))
            => mainErr' # "Timeout" ]_vars

----------------------------------------------------------------------------
(* C5. Stray response.                                                     *)

\* C5: a response whose request_seq had not been issued when it came is not
\* recorded as the answer to any request: every response wait_for_response
\* returns was stored when a request with its seq had been written.
C5_StrayNotAnAnswer ==
    \A c \in Steps : got[c].type = "response" => got[c].issued

----------------------------------------------------------------------------
(* C7. Sequence numbers.                                                   *)

\* C7: every request written carries a seq strictly greater than the seq of
\* every request written before it.
C7_SeqStrictlyIncreasing ==
    \A i, j \in 1..Len(stdin) : i < j => stdin[i].seq < stdin[j].seq

----------------------------------------------------------------------------
(* C8. Single writer.                                                      *)

\* C8: the two threads are never inside _send_message, writing to the
\* adapter's stdin, at the same time.
C8_SingleWriter ==
    ~(InSendMessage("main") /\ InSendMessage("reader"))

----------------------------------------------------------------------------
(* C9. In-loop handler ordering.                                           *)

\* C9: whenever the reader takes a frame off the pipe, no handler send is
\* in progress, and every initialized event recorded so far has had its
\* configurationDone request written.
C9_HandlerBeforeNextRead ==
    [][ Len(stdout') < Len(stdout) =>
            /\ snd["reader"].pc = "idle"
            /\ CountWritten("configurationDone") = CountEvents("initialized")
      ]_vars

C9_Witness ==
    /\ Written("configurationDone")
    /\ \E i \in 1..Len(received_events) :
          /\ received_events[i] = "initialized"
          /\ i < Len(received_events)

----------------------------------------------------------------------------
(* C10. Handshake state machine.  The scripts keep no state variable; the  *)
(* handshake state is read off what main and the reader have done.         *)

HandshakeState ==
    IF got["launch"].success THEN "Ready"
    ELSE IF mainErr # "none" THEN "Failed"
    ELSE IF ~Written("initialize") THEN "Idle"
    ELSE IF ~Written("launch") THEN "Initializing"
    ELSE IF Logged("RECV_RESP", "configurationDone") THEN "Launching"
    ELSE IF Written("configurationDone") THEN "ConfiguringDone"
    ELSE "AwaitingInitializedEvent"

Rank(h) ==
    CASE h = "Idle" -> 0
      [] h = "Initializing" -> 1
      [] h = "AwaitingInitializedEvent" -> 2
      [] h = "ConfiguringDone" -> 3
      [] h = "Launching" -> 4
      [] h = "Ready" -> 5
      [] h = "Failed" -> 6
      [] h = "Disconnected" -> 6

Terminal == {"Ready", "Failed", "Disconnected"}

----------------------------------------------------------------------------
(* Framing: _send_message / _read_message of scripts/test_dap_standalone.py *)
(* and send_message / read_message of test_debugpy_manual.py.  A stream is  *)
(* a sequence of bytes and a str a sequence of characters, one token each;  *)
(* the header name Content-Length is one token.                             *)

MaxFrames == 2       \* frames written to the pipe in one run
MaxText == 1         \* characters in a message's command string
MaxAdapterFrames == 3  \* frames the unscripted adapter of a sequential script emits

CR == "CR"
LF == "LF"
SP == " "
DQ == "\""
BS == "\\"
EAcute == "U+00E9"   \* a character outside ASCII

Scripts == {"test_dap_standalone", "test_debugpy_manual",
            "test_correct_sequence", "test_launch_sequence"}

\* The messages written: a request with a seq of one digit or an event with
\* a seq of two, and a command string that may hold a quote or a non-ASCII
\* character.
FrameTypes == {"request", "event"}
SeqOf(type) == IF type = "request" THEN 7 ELSE 12
TextChars == {"a", DQ, EAcute}
Texts == UNION {[1..n -> TextChars] : n \in 0..MaxText}
Messages ==
    {[seq |-> SeqOf(t), type |-> t, command |-> c] : t \in FrameTypes, c \in Texts}
NoMessage == [seq |-> 0, type |-> "", command |-> << >>]

Min(S) == CHOOSE x \in S : \A y \in S : x <= y
Range(s) == {s[i] : i \in 1..Len(s)}
From(s, i) == SubSeq(s, i, Len(s))

Decimal == << "0", "1", "2", "3", "4", "5", "6", "7", "8", "9" >>
IsDigit(t) == t \in Range(Decimal)
DigitValue(t) == (CHOOSE d \in 1..10 : Decimal[d] = t) - 1

\* str(n), as the f-string and json.dumps format an int
RECURSIVE Str(_)
Str(n) ==
    IF n < 10 THEN << Decimal[n + 1] >>
    ELSE Str(n \div 10) \o << Decimal[(n % 10) + 1] >>

RECURSIVE DigitsValue(_)
DigitsValue(ds) ==
    IF ds = << >> THEN 0
    ELSE DigitsValue(SubSeq(ds, 1, Len(ds) - 1)) * 10 + DigitValue(ds[Len(ds)])

\* str.strip(): whitespace dropped from both ends
Whitespace == {SP, CR, LF}
RECURSIVE LStrip(_)
LStrip(s) ==
    IF s # << >> /\ Head(s) \in Whitespace THEN LStrip(Tail(s)) ELSE s
RECURSIVE RStrip(_)
RStrip(s) ==
    IF s # << >> /\ s[Len(s)] \in Whitespace
    THEN RStrip(SubSeq(s, 1, Len(s) - 1)) ELSE s
Strip(s) == LStrip(RStrip(s))

\* int(s) succeeds: digits, whitespace allowed around them
IsInt(s) == Strip(s) # << >> /\ \A i \in 1..Len(Strip(s)) : IsDigit(Strip(s)[i])
Int_(s) == DigitsValue(Strip(s))

\* str.split(sep): the pieces between the occurrences of sep
RECURSIVE Split(_, _)
Split(s, sep) ==
    LET n == Len(sep)
        hits == {i \in 1..(Len(s) - n + 1) : SubSeq(s, i, i + n - 1) = sep}
    IN  IF hits = {} THEN << s >>
        ELSE << SubSeq(s, 1, Min(hits) - 1) >>
                 \o Split(From(s, Min(hits) + n), sep)

\* str.split(sep, 1) where sep occurs: the text before and after the first
Split1(s, sep) ==
    LET i == Min({j \in 1..Len(s) : s[j] = sep})
    IN  << SubSeq(s, 1, i - 1), From(s, i + 1) >>

StartsWith(s, prefix) ==
    Len(s) >= Len(prefix) /\ SubSeq(s, 1, Len(prefix)) = prefix

----------------------------------------------------------------------------
(* json.dumps / json.loads and str.encode / bytes.decode.                  *)

EscapedRaw(ch) == IF ch = DQ THEN << BS, DQ >> ELSE << ch >>

\* json.dumps escapes a quote with a backslash and, ensure_ascii being on,
\* writes a non-ASCII character as \uXXXX
Escaped(ch) ==
    CASE ch = DQ -> << BS, DQ >>
      [] ch = EAcute -> << BS, "u", "0", "0", "e", "9" >>
      [] OTHER -> << ch >>

RECURSIVE EscapedText(_)
EscapedText(text) ==
    IF text = << >> THEN << >>
    ELSE Escaped(Head(text)) \o EscapedText(Tail(text))

\* json.dumps(message): the str  {seq,type,"command"}
json_dumps(message) ==
    << "{" >> \o Str(message.seq) \o << ",", message.type, ",", DQ >>
        \o EscapedText(message.command) \o << DQ, "}" >>

\* one character in UTF-8
Utf8(ch) == IF ch = EAcute THEN << "0xC3", "0xA9" >> ELSE << ch >>

\* str.encode('utf-8')
RECURSIVE encode(_)
encode(text) ==
    IF text = << >> THEN << >> ELSE Utf8(Head(text)) \o encode(Tail(text))

\* bytes.decode('utf-8'): the str, or not ok (UnicodeDecodeError)
RECURSIVE decode(_)
decode(bytes) ==
    IF bytes = << >> THEN [ok |-> TRUE, text |-> << >>]
    ELSE IF Head(bytes) = "0xA9" THEN [ok |-> FALSE, text |-> << >>]
    ELSE IF Head(bytes) = "0xC3"
    THEN IF Len(bytes) >= 2 /\ bytes[2] = "0xA9"
         THEN LET r == decode(From(bytes, 3))
              IN  [ok |-> r.ok, text |-> << EAcute >> \o r.text]
         ELSE [ok |-> FALSE, text |-> << >>]
    ELSE LET r == decode(Tail(bytes))
         IN  [ok |-> r.ok, text |-> << Head(bytes) >> \o r.text]

RECURSIVE DigitRun(_, _)
DigitRun(s, i) ==
    IF i <= Len(s) /\ IsDigit(s[i]) THEN 1 + DigitRun(s, i + 1) ELSE 0

\* the JSON string whose first character is at i: its text and the index
\* after its closing quote
RECURSIVE Unescaped(_, _)
Unescaped(s, i) ==
    LET bad == [ok |-> FALSE, text |-> << >>, next |-> i]
        Then(ch, r) == [r EXCEPT !.text = << ch >> \o @]
    IN  IF i > Len(s) THEN bad
        ELSE IF s[i] = DQ THEN [ok |-> TRUE, text |-> << >>, next |-> i + 1]
        ELSE IF s[i] \in {CR, LF} THEN bad
        ELSE IF s[i] = BS
        THEN IF i + 1 <= Len(s) /\ s[i + 1] = DQ
             THEN Then(DQ, Unescaped(s, i + 2))
             ELSE IF /\ i + 5 <= Len(s)
                     /\ SubSeq(s, i + 1, i + 5) = << "u", "0", "0", "e", "9" >>
             THEN Then(EAcute, Unescaped(s, i + 6))
             ELSE bad
        ELSE Then(s[i], Unescaped(s, i + 1))

\* json.loads(text): the message, or not ok (json.JSONDecodeError)
json_loads(s) ==
    LET k == DigitRun(s, 2)
        str == Unescaped(s, 6 + k)
    IN  IF /\ Len(s) >= 7 + k
           /\ s[1] = "{"
           /\ k >= 1
           /\ s[2 + k] = ","
           /\ s[3 + k] \in FrameTypes
           /\ s[4 + k] = ","
           /\ s[5 + k] = DQ
           /\ str.ok
           /\ str.next = Len(s)
           /\ s[Len(s)] = "}"
        THEN [ok |-> TRUE,
              message |-> [seq |-> DigitsValue(SubSeq(s, 2, 1 + k)),
                           type |-> s[3 + k],
                           command |-> str.text]]
        ELSE [ok |-> FALSE, message |-> NoMessage]

----------------------------------------------------------------------------
(* Writing and reading one frame.                                          *)

\* the f-string "Content-Length: {n}\r\n\r\n"
Header(n) == << "Content-Length", ":", SP >> \o Str(n) \o << CR, LF, CR, LF >>

\* test_dap_standalone.py lines 134-140: the bytes written for a message
_send_message(message) ==
    LET body == encode(json_dumps(message))
    IN  encode(Header(Len(body))) \o body

\* test_debugpy_manual.py lines 12-16: the bytes written for a message
send_message(msg) ==
    LET content == json_dumps(msg)
    IN  encode(Header(Len(content)) \o content)

\* what a read of a message comes to: a message returned, None returned,
\* an exception raised, or a loop that does not end
Returns(message, rest) ==
    [outcome |-> "message", message |-> message, rest |-> rest]
Raises(exception, rest) ==
    [outcome |-> exception, message |-> NoMessage, rest |-> rest]

\* read(n) on the pipe: n bytes, or as many as there are
Read(stream, n) == SubSeq(stream, 1, IF n <= Len(stream) THEN n ELSE Len(stream))

\* lines 109-116: the index at which the bytes read one at a time first end
\* with CRLFCRLF; 0 when the stream ends before that
RECURSIVE HeaderEnd(_, _)
HeaderEnd(stream, k) ==
    IF k > Len(stream) THEN 0
    ELSE IF k >= 4 /\ SubSeq(stream, k - 3, k) = << CR, LF, CR, LF >> THEN k
    ELSE HeaderEnd(stream, k + 1)

\* test_dap_standalone.py lines 106-130
_read_message(stream) ==
    LET k == HeaderEnd(stream, 1)
        header_str == decode(SubSeq(stream, 1, k))
        lines == Split(header_str.text, << CR, LF >>)
        found == {i \in 1..Len(lines) :
                      StartsWith(lines[i], << "Content-Length", ":" >>)}
        field == Split(lines[Min(found)], << ":" >>)[2]
        after == From(stream, k + 1)
        body == Read(after, Int_(field))
        rest == From(after, Len(body) + 1)
        text == decode(body)
        loaded == json_loads(text.text)
    IN  IF k = 0 THEN Raises("None", << >>)
        ELSE IF ~header_str.ok THEN Raises("UnicodeDecodeError", after)
        ELSE IF found = {} THEN Raises("ValueError", after)
        ELSE IF ~IsInt(field) THEN Raises("ValueError", after)
        ELSE IF ~text.ok THEN Raises("UnicodeDecodeError", rest)
        ELSE IF ~loaded.ok THEN Raises("JSONDecodeError", rest)
        ELSE Returns(loaded.message, rest)

\* readline(): the bytes up to and including the first LF, or all of them
readline(stream) ==
    IF LF \in Range(stream)
    THEN SubSeq(stream, 1, Min({i \in 1..Len(stream) : stream[i] = LF}))
    ELSE stream

\* test_debugpy_manual.py lines 22-29: the header loop.  At the end of the
\* stream readline() returns b'' every time and the loop does not end.
RECURSIVE ReadHeaders(_, _)
ReadHeaders(stream, headers) ==
    LET raw == readline(stream)
        rest == From(stream, Len(raw) + 1)
        line == decode(raw)
        kv == Split1(Strip(line.text), ":")
    IN  IF stream = << >>
        THEN [end |-> "loops", headers |-> headers, rest |-> << >>]
        ELSE IF ~line.ok
        THEN [end |-> "UnicodeDecodeError", headers |-> headers, rest |-> rest]
        ELSE IF line.text = << CR, LF >>
        THEN [end |-> "break", headers |-> headers, rest |-> rest]
        ELSE IF ":" \in Range(line.text)
        THEN ReadHeaders(rest, (Strip(kv[1]) :> Strip(kv[2])) @@ headers)
        ELSE ReadHeaders(rest, headers)

\* test_debugpy_manual.py lines 19-36
read_message(stream) ==
    LET h == ReadHeaders(stream, << >>)
        value == IF << "Content-Length" >> \in DOMAIN h.headers
                 THEN h.headers[<< "Content-Length" >>]
                 ELSE << "0" >>
        content == Read(h.rest, Int_(value))
        rest == From(h.rest, Len(content) + 1)
        text == decode(content)
        msg == json_loads(text.text)
    IN  IF h.end # "break" THEN Raises(h.end, h.rest)
        ELSE IF ~IsInt(value) THEN Raises("ValueError", h.rest)
        ELSE IF ~text.ok THEN Raises("UnicodeDecodeError", rest)
        ELSE IF ~msg.ok THEN Raises("JSONDecodeError", rest)
        ELSE Returns(msg.message, rest)

----------------------------------------------------------------------------
(* Reading a stream that is closed or damaged.                             *)

\* test_correct_sequence.py lines 20-26, test_launch_sequence.py lines 33-41:
\* the header loop.  A line of LF alone ends the headers too; at_eof is what
\* the loop does when readline() returns b'' ("break" or "None").
RECURSIVE ReadHeadersSelect(_, _, _)
ReadHeadersSelect(stream, headers, at_eof) ==
    LET raw == readline(stream)
        rest == From(stream, Len(raw) + 1)
        line == decode(raw)
        kv == Split1(Strip(line.text), ":")
    IN  IF stream = << >>
        THEN [end |-> at_eof, headers |-> headers, rest |-> << >>]
        ELSE IF ~line.ok
        THEN [end |-> "UnicodeDecodeError", headers |-> headers, rest |-> rest]
        ELSE IF line.text \in {<< CR, LF >>, << LF >>}
        THEN [end |-> "break", headers |-> headers, rest |-> rest]
        ELSE IF ":" \in Range(line.text)
        THEN ReadHeadersSelect(rest, (Strip(kv[1]) :> Strip(kv[2])) @@ headers,
                               at_eof)
        ELSE ReadHeadersSelect(rest, headers, at_eof)

\* int(headers.get('Content-Length', 0)), read(length), decode, json.loads
ReadContent(h) ==
    LET value == IF << "Content-Length" >> \in DOMAIN h.headers
                 THEN h.headers[<< "Content-Length" >>]
                 ELSE << "0" >>
        content == Read(h.rest, Int_(value))
        rest == From(h.rest, Len(content) + 1)
        text == decode(content)
        msg == json_loads(text.text)
    IN  IF ~IsInt(value) THEN Raises("ValueError", h.rest)
        ELSE IF ~text.ok THEN Raises("UnicodeDecodeError", rest)
        ELSE IF ~msg.ok THEN Raises("JSONDecodeError", rest)
        ELSE Returns(msg.message, rest)

\* except Exception: print and return None
Caught(r) == IF r.outcome \in {"message", "None"} THEN r ELSE Raises("None", r.rest)

\* test_correct_sequence.py lines 12-36, the stream being ready to read
read_message_correct_sequence(stream) ==
    LET h == ReadHeadersSelect(stream, << >>, "break")
    IN  Caught(IF h.end # "break" THEN Raises(h.end, h.rest) ELSE ReadContent(h))

\* test_launch_sequence.py lines 19-53, the stream being ready to read
read_message_launch_sequence(stream) ==
    LET h == ReadHeadersSelect(stream, << >>, "None")
    IN  Caught(IF h.end # "break" THEN Raises(h.end, h.rest) ELSE ReadContent(h))

\* the bytes the script under test writes for a message
WriteMessage(m) ==
    IF script = "test_dap_standalone" THEN _send_message(m) ELSE send_message(m)

\* what the script under test reads from a stream
ReadMessage(stream) ==
    CASE script = "test_dap_standalone" -> _read_message(stream)
      [] script = "test_debugpy_manual" -> read_message(stream)
      [] script = "test_correct_sequence" -> read_message_correct_sequence(stream)
      [] script = "test_launch_sequence" -> read_message_launch_sequence(stream)

\* one message is written to the pipe, header and body in one write
FrameWrite(m) ==
    /\ Len(sent) < MaxFrames
    /\ pipe' = pipe \o WriteMessage(m)
    /\ sent' = Append(sent, m)
    /\ UNCHANGED << script, received, fault, pending, protocol, sequential >>

\* one message is read from the pipe
FrameRead ==
    /\ pipe # << >>
    /\ received' = Append(received, [outcome |-> ReadMessage(pipe).outcome,
                                     message |-> ReadMessage(pipe).message])
    /\ pipe' = ReadMessage(pipe).rest
    /\ UNCHANGED << script, sent, fault, pending, protocol, sequential >>

FramingInit ==
    /\ InitProtocol
    /\ script \in Scripts
    /\ pipe = << >>
    /\ sent = << >>
    /\ received = << >>
    /\ fault = NoFault
    /\ pending = << >>
    /\ SequentialIdle

FramingNext == (\E m \in Messages : FrameWrite(m)) \/ FrameRead

SpecFraming == FramingInit /\ [][FramingNext]_vars

----------------------------------------------------------------------------
(* C6. Round-trip framing.                                                 *)

\* the bytes written for the messages sent from the i-th on
RECURSIVE WrittenFrom(_)
WrittenFrom(i) ==
    IF i > Len(sent) THEN << >> ELSE WriteMessage(sent[i]) \o WrittenFrom(i + 1)

\* C6: every message written is framed as the header Content-Length: N,
\* CRLFCRLF and N bytes, N the byte length of the encoded body; the
\* messages read are the messages written, in order and unchanged; and each
\* read consumes exactly one frame, the pipe holding the frames not yet
\* read and nothing else.
C6_RoundTrip ==
    /\ \A i \in 1..Len(sent) :
          WriteMessage(sent[i]) =
              encode(Header(Len(encode(json_dumps(sent[i])))))
                  \o encode(json_dumps(sent[i]))
    /\ Len(received) <= Len(sent)
    /\ \A i \in 1..Len(received) :
          /\ received[i].outcome = "message"
          /\ received[i].message = sent[i]
    /\ pipe = WrittenFrom(Len(received) + 1)

C6_Witness ==
    /\ script = "test_debugpy_manual"
    /\ Len(received) = 2
    /\ pipe = << >>
    /\ received[1].message.command = << EAcute >>
    /\ received[1].message.seq = 12
    /\ received[2].message.command = << DQ >>
    /\ received[2] # received[1]

----------------------------------------------------------------------------
(* C11. Initialize outcome.                                                *)

\* main has called send_launch, or the launch request is on the wire
LaunchCalled == Written("launch") \/ snd["main"].cmd = "launch"

\* C11 as claimed: the launch request is sent only after the response
\* waited for as initialize's came with success=true; and once that response
\* came with success=false, no launch and no configurationDone request is
\* on the wire.
C11_InitializeOutcome ==
    /\ LaunchCalled => got["initialize"].success
    /\ mainErr = "InitFailed" =>
          /\ ~LaunchCalled
          /\ ~Written("configurationDone")

\* C11 as amended: the launch request is sent only after the response
\* waited for as initialize's came with success=true; once it came with
\* success=false main fails and never sends launch; a configurationDone
\* request is sent by the reader exactly when it has received an
\* initialized event, whatever the outcome of initialize.
C11_LaunchOnlyAfterSuccess ==
    /\ LaunchCalled => got["initialize"].success
    /\ mainErr = "InitFailed" =>
          /\ got["initialize"].type = "response"
          /\ ~got["initialize"].success
          /\ ~LaunchCalled
    /\ Written("configurationDone") => CountEvents("initialized") > 0
    /\ (CountEvents("initialized") > 0 /\ alive /\ readerPc = "top") =>
          CountWritten("configurationDone") = CountEvents("initialized")

\* the launch request went out with no initialized event received
C11_Witness ==
    /\ Written("launch")
    /\ got["initialize"].success
    /\ CountEvents("initialized") = 0
    /\ received_events = << >>

----------------------------------------------------------------------------
(* C12. Out-of-order resolution.                                           *)

\* C12: whichever of the launch and configurationDone responses comes
\* first, each response main takes as the answer to a request of its own is
\* the response to that request (the launch response for launch), never the
\* response to another request.
C12_OutOfOrderResolution ==
    \A c \in Steps : got[c].type = "response" => got[c].command = c

----------------------------------------------------------------------------
(* C13. Unexpected messages.                                               *)

\* C13: an event the handshake does not expect (an output event) leaves the
\* handshake state unchanged when the reader takes it; a response to a
\* request that had not been sent leaves it unchanged also when main looks
\* at the responses; and a terminated event taken in a non-terminal state
\* moves the handshake to Disconnected.
C13_UnexpectedMessages ==
    [][ /\ (ReaderTakes("event") /\ Head(stdout).command = "output") =>
              HandshakeState' = HandshakeState
        /\ (\E c \in Steps : got'[c] # got[c] /\ ~got'[c].issued) =>
              HandshakeState' = HandshakeState
        /\ (/\ ReaderTakes("event")
            /\ Head(stdout).command = "terminated"
            /\ HandshakeState \notin Terminal) =>
              HandshakeState' = "Disconnected"
      ]_vars

----------------------------------------------------------------------------
(* C14. Handshake step timeout.                                            *)

\* main is inside wait_for_response
Waiting == mainPc \in WaitPcs \cup SleepPcs

\* The client against an unscripted adapter, with time passing: both
\* threads keep running, and the deadline of a wait that goes on polling
\* passes (line 214).
SpecDeadline ==
    /\ Init
    /\ [][Next]_vars
    /\ WF_vars(MainNext)
    /\ WF_vars(ReaderNext)
    /\ SF_vars(\E step \in Steps : Timeout(step))

----------------------------------------------------------------------------
(* C15. Reader stops on end of stream.                                     *)

\* C15: when the reader reads the adapter's output at its end (the adapter
\* has exited and every frame it wrote has been read), the reader loop
\* stops; it does not go round to read the closed stream again.
C15_ReaderStopsAtEOF ==
    [][ (readerPc = "reading" /\ stdout = << >> /\ ~alive)
            => readerPc' \in {"reading", "stopped"} ]_vars
----------------------------------------------------------------------------
(* What the adapter's output can hold when something went wrong.           *)

\* ways in which the stream read differs from one whole frame
FaultKinds == {"cut", "no_length", "bad_length", "bad_body"}
Malformed == FaultKinds \ {"cut"}

\* the body of a frame
Body(m) == encode(json_dumps(m))

\* a body that is not JSON: the opening brace is lost
BadBody(m) == << "a" >> \o Tail(Body(m))

\* the stream holding one frame for m, damaged: the adapter closed its output
\* after the first `at` bytes of the frame, or the frame has a header without
\* Content-Length, a Content-Length that is not a number, or a body that is
\* not JSON
Damaged(m, kind, at) ==
    CASE kind = "cut" -> SubSeq(WriteMessage(m), 1, at)
      [] kind = "no_length" ->
             encode(<< "Content-Type", ":", SP, "a", CR, LF, CR, LF >>) \o Body(m)
      [] kind = "bad_length" ->
             encode(<< "Content-Length", ":", SP, "a", CR, LF, CR, LF >>) \o Body(m)
      [] kind = "bad_body" -> encode(Header(Len(BadBody(m)))) \o BadBody(m)

\* where a frame can be cut: before any byte of it up to before its last
Cuts(m) == 0 .. (Len(WriteMessage(m)) - 1)

\* the adapter writes one damaged frame and its output ends there
StreamWrite(m, kind, at) ==
    /\ fault = NoFault
    /\ sent = << >>
    /\ pipe' = Damaged(m, kind, at)
    /\ sent' = << m >>
    /\ fault' = [kind |-> kind, at |-> at]
    /\ UNCHANGED << script, received, pending, protocol, sequential >>

\* the script reads one message from that stream
StreamRead ==
    /\ fault # NoFault
    /\ received = << >>
    /\ received' = << [outcome |-> ReadMessage(pipe).outcome,
                       message |-> ReadMessage(pipe).message] >>
    /\ pipe' = ReadMessage(pipe).rest
    /\ UNCHANGED << script, sent, fault, pending, protocol, sequential >>

StreamNext ==
    \/ \E m \in Messages : \E at \in Cuts(m) : StreamWrite(m, "cut", at)
    \/ \E m \in Messages : \E kind \in Malformed : StreamWrite(m, kind, 0)
    \/ StreamRead

SpecStream == FramingInit /\ [][StreamNext]_vars

\* the length of the header block of the frame written for m
HeaderLen(m) == Len(WriteMessage(m)) - Len(Body(m))

\* what the script's read of the stream came to
Outcome == received[1].outcome

\* what the script's read of m's frame damaged in the given way comes to
OutcomeOf(m, kind) == ReadMessage(Damaged(m, kind, 0)).outcome

----------------------------------------------------------------------------
(* C16. End of stream.                                                     *)

\* C16: when the adapter closes its output before a complete frame is read,
\* the read ends, and with an outcome that the same script gives for no
\* frame with a malformed header or a malformed body.
C16_EndOfStreamDistinct ==
    (received # << >> /\ fault.kind = "cut") =>
        /\ Outcome # "loops"
        /\ \A kind \in Malformed : Outcome # OutcomeOf(sent[1], kind)
----------------------------------------------------------------------------
(* C17. At most one fulfiller.                                             *)

\* the reader takes a response whose request_seq already has a response
\* recorded
ReaderTakesDuplicate ==
    /\ ReaderTakes("response")
    /\ Arrived(StoreKey(Head(stdout)))

\* C17: the first response recorded for a request_seq stays: when the reader
\* takes a later response with the same request_seq, the recorded response
\* is not replaced, so the waiter is given the first.
C17_FirstResponseWins ==
    [][ReaderTakesDuplicate =>
          /\ received_responses'[StoreKey(Head(stdout))].command
                = received_responses[StoreKey(Head(stdout))].command
          /\ received_responses'[StoreKey(Head(stdout))].success
                = received_responses[StoreKey(Head(stdout))].success]_vars
----------------------------------------------------------------------------
(* C18. Header and body errors.                                            *)

\* the exceptions of the code that stand for the claim's error kinds:
\* ValueError from line 125 or from int() at line 122, JSONDecodeError from
\* json.loads at line 127
FramingError == "ValueError"
DecodeError == "JSONDecodeError"

\* the stream holds one frame with Content-Length: 0 and then the body of m
ZeroLength(m) == encode(Header(0)) \o Body(m)

\* C18: a read of a frame whose header block has no Content-Length line, or
\* whose Content-Length is not a number, fails with the framing error; a
\* read of a frame whose body is not JSON fails with the decoding error; and
\* a header block without Content-Length is not read as Content-Length: 0
\* is, with no byte of the body consumed and the outcome of an empty body.
C18_HeaderAndBodyErrors ==
    received # << >> =>
        /\ fault.kind \in {"no_length", "bad_length"} => Outcome = FramingError
        /\ fault.kind = "bad_body" => Outcome = DecodeError
        /\ fault.kind = "no_length" =>
              ~ /\ pipe = Body(sent[1])
                /\ Outcome = ReadMessage(ZeroLength(sent[1])).outcome
----------------------------------------------------------------------------
(* C19. Events in arrival order.                                           *)

\* the reader is at an event frame
AtEvent == readerPc = "reading" /\ stdout # << >> /\ Head(stdout).type = "event"

\* C19: received_events, the list the consumer reads, grows only by the
\* reader taking an event, and then by that event at its end: the events are
\* there in the order the reader took them, none dropped and none twice.
\* Recording waits for no consumer: an event frame the reader is at can be
\* recorded whatever main is doing, and the reader goes on to its next read
\* or to the configurationDone it sends itself.
C19_EventsInArrivalOrder ==
    /\ [][IF ReaderTakes("event")
          THEN /\ received_events' = Append(received_events, Head(stdout).command)
               /\ readerPc' \in {"top", "handler"}
          ELSE received_events' = received_events]_vars
    /\ [](AtEvent => ENABLED ReaderEvent)

\* the reader has recorded three events, the first and the last alike, while
\* main was still waiting for a response
C19_Witness ==
    /\ received_events = << "output", "initialized", "output" >>
    /\ mainPc \in WaitPcs \cup SleepPcs
----------------------------------------------------------------------------
(* C20. Terminate.                                                         *)

\* C20: shutdown() always completes: once it has sent the adapter the
\* graceful stop it returns, the adapter then being gone, whether or not the
\* adapter exits on the graceful stop; and shutting down an adapter that has
\* already exited completes just the same.
C20_TerminateCompletes ==
    /\ (mainPc = "sd_term") ~> (mainPc = "done")
    /\ [](mainPc = "done" => ~alive)
----------------------------------------------------------------------------
(* C25. configurationDone is event-driven only.                            *)

\* the reader is between frames: at the top of its loop or about to read
BetweenFrames == readerPc \in {"top", "reading"}

\* the positions on the adapter's input of the requests with command c
Positions(c) == {i \in 1..Len(stdin) : stdin[i].command = c}

\* every configurationDone on the wire was written by the reader thread
WrittenByReader ==
    \A i \in Positions("configurationDone") : stdin[i].by = "reader"

\* a configurationDone is written only while the reader is in the handler
\* of an initialized event, the event recorded last
WrittenInHandler ==
    [][CountWritten("configurationDone")' # CountWritten("configurationDone") =>
          /\ readerPc = "handler"
          /\ received_events # << >>
          /\ received_events[Len(received_events)] = "initialized"
          /\ CountWritten("configurationDone")'
                = CountWritten("configurationDone") + 1]_vars

\* C25 as claimed: configurationDone is written only by the reader in its
\* handler of an initialized event, one per initialized event, the two
\* counts being equal whenever the reader is between frames, and no
\* configurationDone is on the wire before the launch request.
C25_EventDrivenOnly ==
    /\ WrittenByReader
    /\ BetweenFrames => CountWritten("configurationDone") = CountEvents("initialized")
    /\ \A i \in Positions("configurationDone") :
          \E j \in Positions("launch") : j < i

\* C25 amended: the same without the order against launch.  The reader
\* answers an initialized event whenever the adapter emits one, so a
\* configurationDone on the wire before launch follows an initialized event
\* that the reader recorded before main wrote launch.
C25_OnePerInitializedEvent ==
    /\ [](WrittenByReader)
    /\ [](BetweenFrames =>
            CountWritten("configurationDone") = CountEvents("initialized"))
    /\ WrittenInHandler
    /\ [](\A i \in Positions("configurationDone") :
            CountEvents("initialized") > 0)

\* two initialized events were answered, the first before main wrote launch
C25_Witness ==
    /\ BetweenFrames
    /\ CountEvents("initialized") = 2
    /\ CountWritten("configurationDone") = 2
    /\ \E i \in Positions("configurationDone") :
          \A j \in Positions("launch") : i < j
    /\ Written("launch")
----------------------------------------------------------------------------
(* C26. Cleanup on every path.                                             *)

\* main and the reader are scheduled fairly, a wait that is not answered
\* times out, and a write to an adapter that has exited raises
SpecCleanup ==
    /\ Init
    /\ [][Next]_vars
    /\ WF_vars(MainNext)
    /\ WF_vars(ReaderNext)
    /\ WF_vars(MainWriteBroken)
    /\ SF_vars(\E step \in Steps : Timeout(step))

\* main has left the handshake: it is in shutdown() or past it
InShutdown == mainPc \in {"sd_flag", "sd_term", "sd_wait", "done"}

----------------------------------------------------------------------------
(* A frame that reaches the pipe in pieces.  The pipe of                   *)
(* test_dap_standalone.py is opened with bufsize=0 (line 62): stdout is    *)
(* the raw file, and read(n) is one read of the pipe, which returns the    *)
(* bytes that are there, at least one and at most n.                       *)

\* the adapter writes a frame of which the first `at` bytes reach the pipe
\* now and the others later
PieceWrite(m, at) ==
    /\ Len(sent) < MaxFrames
    /\ pending = << >>
    /\ pipe' = pipe \o SubSeq(WriteMessage(m), 1, at)
    /\ pending' = From(WriteMessage(m), at + 1)
    /\ sent' = Append(sent, m)
    /\ UNCHANGED << script, received, fault, protocol, sequential >>

\* the bytes still on their way reach the pipe
PieceArrive ==
    /\ pending # << >>
    /\ pipe' = pipe \o pending
    /\ pending' = << >>
    /\ UNCHANGED << script, sent, received, fault, protocol, sequential >>

\* _read_message, lines 106-130: read(1) blocks until the header block is
\* there (109-116), read(content_length) until one byte of the body is (126)
PieceRead ==
    /\ HeaderEnd(pipe, 1) # 0
    /\ Len(pipe) > HeaderEnd(pipe, 1)
    /\ received' = Append(received, [outcome |-> _read_message(pipe).outcome,
                                     message |-> _read_message(pipe).message])
    /\ pipe' = _read_message(pipe).rest
    /\ UNCHANGED << script, sent, pending, fault, protocol, sequential >>

PiecesNext ==
    \/ \E m \in Messages : \E at \in 1..Len(WriteMessage(m)) : PieceWrite(m, at)
    \/ PieceArrive
    \/ PieceRead

SpecPieces == Init /\ [][PiecesNext]_vars

----------------------------------------------------------------------------
(* C22. Exact body read.                                                   *)

\* C22: however the bytes of the frames reach the pipe, every read yields
\* one complete message, the messages read are the messages written, in
\* order, and the bytes not yet read are the frames not yet read, the
\* stream standing at the start of the next frame.
C22_ExactBodyRead ==
    /\ Len(received) <= Len(sent)
    /\ \A i \in 1..Len(received) :
          /\ received[i].outcome = "message"
          /\ received[i].message = sent[i]
    /\ pipe \o pending = WrittenFrom(Len(received) + 1)
----------------------------------------------------------------------------
(* The sequential clients: test_launch_sequence.py (main, lines 55-142)    *)
(* and test_correct_sequence.py (module body, lines 38-99).  One thread    *)
(* writes a request, then calls read_message in a bounded loop until the   *)
(* message it looks for has come, and goes on to the next request whether  *)
(* or not it came.  proc.stdout is a buffered reader (Popen's default      *)
(* bufsize); select() looks at the pipe's descriptor, not at the buffer.   *)

Programs == {"test_launch_sequence", "test_correct_sequence"}

\* one step of a script: the request sent ("none" when the step sends
\* nothing), the message the loop looks for, the loop's range, and whether
\* the loop breaks when read_message returns None
Loop(send, type, command, n, stop) ==
    [send |-> send, type |-> type, command |-> command, tries |-> n,
     break_on_none |-> stop]

\* test_correct_sequence.py lines 45-94
PlanCorrect ==
    << Loop("initialize", "response", "initialize", 5, FALSE),
       Loop("none", "event", "initialized", 5, FALSE),
       Loop("configurationDone", "response", "configurationDone", 5, FALSE),
       Loop("launch", "response", "launch", 10, TRUE) >>

\* test_launch_sequence.py lines 68-136
PlanLaunch ==
    << Loop("initialize", "response", "initialize", 10, TRUE),
       Loop("launch", "response", "launch", 10, TRUE),
       Loop("configurationDone", "response", "configurationDone", 5, TRUE) >>

PlanAlwaysCorrect(p) == PlanCorrect

\* the steps of the script
Plan(p) == IF p = "test_launch_sequence" THEN PlanLaunch ELSE PlanCorrect

\* the step the script is at
Current == Plan(program)[IF stage <= Len(Plan(program)) THEN stage ELSE 1]

\* the test in the loop body: is msg the message looked for?
Matches(m, loop) == m.type = loop.type /\ m.command = loop.command

Sent(c) == \E i \in 1..Len(proc_stdin) : proc_stdin[i].command = c

\* what the script has seen so far: the requests sent and the messages
\* read_message returned, in order
Seen(kind, m) == [kind |-> kind, type |-> m.type, command |-> m.command]
HasRead(type, command) ==
    \E i \in 1..Len(history) :
        history[i] = [kind |-> "read", type |-> type, command |-> command]

\* after Popen (launch 60-65, correct 39-40)
SequentialInit ==
    /\ InitProtocol
    /\ script = "test_launch_sequence"
    /\ pipe = << >>
    /\ sent = << >>
    /\ received = << >>
    /\ fault = NoFault
    /\ pending = << >>
    /\ program \in Programs
    /\ stage = 1
    /\ phase = "send"
    /\ tries = 0
    /\ returned = NoFrame
    /\ proc_stdin = << >>
    /\ proc_stdout = << >>
    /\ buffered = << >>
    /\ proc_alive = TRUE
    /\ served = 0
    /\ backlog = << >>
    /\ withheld = << >>
    /\ emits = 0
    /\ history = << >>

\* send_message (launch 10-17, correct 5-10) with the request of the step;
\* the seq written is 1, 2, 3 in the order of the requests
ClientSend ==
    /\ phase = "send"
    /\ IF Current.send = "none"
       THEN UNCHANGED << proc_stdin, history >>
       ELSE /\ proc_stdin' = Append(proc_stdin,
                                    [seq |-> Len(proc_stdin) + 1,
                                     command |-> Current.send])
            /\ history' = Append(history,
                                 [kind |-> "sent", type |-> "request",
                                  command |-> Current.send])
    /\ phase' = "read"
    /\ tries' = 0
    /\ UNCHANGED << program, stage, returned, proc_stdout, buffered, proc_alive,
                    served, backlog, withheld, emits, protocol, wire >>

\* the loop body after read_message returned m: break, or go round, or fall
\* out of an exhausted range; after the loop the script goes on to its next
\* step, and after the last to the finally clause
AfterRead(m) ==
    IF \/ (m # NoFrame /\ Matches(m, Current))
       \/ (m = NoFrame /\ Current.break_on_none)
       \/ tries + 1 = Current.tries
    THEN /\ stage' = stage + 1
         /\ phase' = IF stage = Len(Plan(program)) THEN "cleanup" ELSE "send"
         /\ tries' = 0
    ELSE /\ tries' = tries + 1
         /\ UNCHANGED << stage, phase >>

\* select.select([proc.stdout], [], [], timeout_secs): bytes in the pipe
SelectReady == proc_stdout # << >>

\* readline() and read(length) on the buffered reader: from its buffer when
\* that holds the frame, else after one read of the pipe that takes what is
\* there into the buffer
Buffer == IF buffered = << >> THEN proc_stdout ELSE buffered

\* read_message, select ready (launch 30-50, correct 18-33)
ClientRead ==
    /\ phase = "read"
    /\ SelectReady
    /\ returned' = Head(Buffer)
    /\ buffered' = Tail(Buffer)
    /\ proc_stdout' = IF buffered = << >> THEN << >> ELSE proc_stdout
    /\ history' = Append(history, Seen("read", Head(Buffer)))
    /\ AfterRead(Head(Buffer))
    /\ UNCHANGED << program, proc_stdin, proc_alive, served, backlog,
                    withheld, emits, protocol, wire >>

\* read_message, select not ready within timeout_secs (launch 25-28,
\* correct 14-17): None
ClientTimeout ==
    /\ phase = "read"
    /\ ~SelectReady
    /\ returned' = NoFrame
    /\ AfterRead(NoFrame)
    /\ UNCHANGED << program, proc_stdin, proc_stdout, buffered, proc_alive,
                    served, backlog, withheld, emits, history, protocol,
                    wire >>

\* finally: proc.terminate() (launch 141, correct 98)
ClientTerminate ==
    /\ phase = "cleanup"
    /\ phase' = "wait"
    /\ UNCHANGED << program, stage, tries, returned, proc_stdin, proc_stdout,
                    buffered, proc_alive, served, backlog, withheld, emits,
                    history, protocol, wire >>

\* finally: proc.wait() (launch 142, correct 99)
ClientWait ==
    /\ phase = "wait"
    /\ ~proc_alive
    /\ phase' = "done"
    /\ UNCHANGED << program, stage, tries, returned, proc_stdin, proc_stdout,
                    buffered, proc_alive, served, backlog, withheld, emits,
                    history, protocol, wire >>

\* the adapter exits on SIGTERM
AdapterQuit ==
    /\ phase = "wait"
    /\ proc_alive
    /\ proc_alive' = FALSE
    /\ UNCHANGED << program, stage, phase, tries, returned, proc_stdin, proc_stdout,
                    buffered, served, backlog, withheld, emits, history,
                    protocol, wire >>

ClientNext ==
    \/ ClientSend \/ ClientRead \/ ClientTimeout
    \/ ClientTerminate \/ ClientWait

(* The adapter of the sequential scripts (python -m debugpy.adapter) is    *)
(* outside the repository.  Scripted, it answers initialize, answers       *)
(* launch with an initialized event and withholds the launch response      *)
(* until it has read configurationDone, and answers configurationDone.     *)
(* Unscripted, it emits responses and events as it likes once the first    *)
(* request has been written to it.                                         *)
Configured ==
    \E i \in 1..served : proc_stdin[i].command = "configurationDone"

ScriptedRead ==
    /\ proc_alive
    /\ served < Len(proc_stdin)
    /\ served' = served + 1
    /\ LET r == proc_stdin[served + 1]
           answer == << Response(r.seq, r.command, TRUE) >>
       IN
       CASE r.command = "launch" /\ ~Configured ->
              /\ backlog' = backlog \o << Event("initialized") >>
              /\ withheld' = withheld \o answer
         [] r.command = "launch" /\ Configured ->
              /\ backlog' = backlog \o << Event("initialized") >> \o answer
              /\ UNCHANGED withheld
         [] r.command = "configurationDone" ->
              /\ backlog' \in {backlog \o answer \o withheld,
                               backlog \o withheld \o answer}
              /\ withheld' = << >>
         [] OTHER ->
              /\ backlog' = backlog \o answer
              /\ UNCHANGED withheld
    /\ UNCHANGED << program, stage, phase, tries, returned, proc_stdin, proc_stdout,
                    buffered, proc_alive, emits, history, protocol, wire >>

ScriptedEmit ==
    /\ proc_alive
    /\ backlog # << >>
    /\ proc_stdout' = Append(proc_stdout, Head(backlog))
    /\ backlog' = Tail(backlog)
    /\ UNCHANGED << program, stage, phase, tries, returned, proc_stdin, buffered,
                    proc_alive, served, withheld, emits, history, protocol,
                    wire >>

\* the frames an unscripted adapter emits
AdapterFrames ==
    {Response(0, c, TRUE) : c \in {"initialize", "launch", "configurationDone"}}
        \cup {Event("initialized"), Event("output")}

UnscriptedEmit ==
    /\ proc_alive
    /\ proc_stdin # << >>
    /\ emits < MaxAdapterFrames
    /\ \E frame \in AdapterFrames : proc_stdout' = Append(proc_stdout, frame)
    /\ emits' = emits + 1
    /\ UNCHANGED << program, stage, phase, tries, returned, proc_stdin, buffered,
                    proc_alive, served, backlog, withheld, history, protocol,
                    wire >>

\* a sequential script against an unscripted adapter
SpecSequential ==
    SequentialInit /\ [][ClientNext \/ UnscriptedEmit \/ AdapterQuit]_vars

\* a sequential script against the scripted adapter
SpecSequentialDouble ==
    SequentialInit
        /\ [][ClientNext \/ ScriptedRead \/ ScriptedEmit \/ AdapterQuit]_vars
----------------------------------------------------------------------------
(* C21. The sequential handshake deadlocks.                                *)

\* test_launch_sequence.py is in the loop that waits for the launch
\* response (lines 111-118)
LaunchWait ==
    /\ program = "test_launch_sequence"
    /\ phase = "read"
    /\ Current.command = "launch"

\* there is a launch response among the frames
LaunchAnswer(frames) ==
    \E i \in 1..Len(frames) :
        frames[i].type = "response" /\ frames[i].command = "launch"

\* C21: against the adapter that withholds the launch response until it has
\* read configurationDone, the script that waits for the launch response
\* before it sends configurationDone does not get it: while it waits,
\* configurationDone has not been sent and no launch response has been
\* emitted or read, and the wait ends only with read_message returning None
\* on a pipe with nothing to read, the timeout.
C21_SequentialDeadlock ==
    /\ [](LaunchWait =>
            /\ ~Sent("configurationDone")
            /\ ~LaunchAnswer(backlog)
            /\ ~LaunchAnswer(proc_stdout)
            /\ ~LaunchAnswer(buffered)
            /\ ~HasRead("response", "launch"))
    /\ [][(LaunchWait /\ ~LaunchWait') =>
            /\ returned' = NoFrame
            /\ ~SelectReady]_vars

\* the wait for the launch response has timed out after the initialized
\* event was read, configurationDone has been sent, and only then has the
\* adapter emitted the launch response
C21_Witness ==
    /\ program = "test_launch_sequence"
    /\ Sent("configurationDone")
    /\ HasRead("event", "initialized")
    /\ ~HasRead("response", "launch")
    /\ LaunchAnswer(proc_stdout)
----------------------------------------------------------------------------
(* C23. No spurious timeout.                                               *)

\* a call of read_message returns in this step
ReadMessageReturns ==
    /\ phase = "read"
    /\ (tries' # tries \/ stage' # stage)

\* C23: read_message returns None for a timeout only when no frame the
\* adapter wrote is waiting to be returned, in the pipe or in the buffer of
\* proc.stdout; and when a frame is waiting in the buffer, written together
\* with the one returned before, the call returns that frame.
C23_NoSpuriousTimeout ==
    [][ReadMessageReturns =>
          /\ returned' = NoFrame => (proc_stdout = << >> /\ buffered = << >>)
          /\ buffered # << >> => returned' = Head(buffered)]_vars

----------------------------------------------------------------------------
(* C24. configurationDone before launch.                                   *)

\* C24: test_correct_sequence.py sends configurationDone only after it has
\* read the initialize response and the initialized event, and launch only
\* after it has read the configurationDone response.
C24_CorrectSequenceOrder ==
    program = "test_correct_sequence" =>
        /\ Sent("configurationDone") =>
              /\ HasRead("response", "initialize")
              /\ HasRead("event", "initialized")
        /\ Sent("launch") => HasRead("response", "configurationDone")

====
